---------------------------- MODULE Spec2Model ----------------------------
(* Minesweeper game engine (src/src/main.rs): board construction with the  *)
(* cleared opening region, the recursive clearing of zero-count squares,   *)
(* and the move loop of make_move_io.                                      *)
EXTENDS Integers, Sequences, FiniteSets

(* ---- bounds of the model ---- *)
MaxDim == 4        \* widths and heights range over 1..MaxDim
MaxBombs == 2      \* bomb_count ranges over 0..MaxBombs

(* ---- program constants ---- *)
U8Mod == 256       \* move_count is a u8

Covered == "Covered"
Uncovered == "Uncovered"
Bomb == "Bomb"

SquareState == {Covered, Uncovered, Bomb}

Position(x, y) == [x |-> x, y |-> y]

VARIABLES
    phase,        \* "init"; after Game::start "playing", "rejected" (Err) or
                  \* "aborted" (panic); after make_move_io "playing" (it
                  \* calls itself), "lost", "won", "error" (Err) or "panic"
    width,        \* Board.width
    height,       \* Board.height
    squares,      \* Board.squares, a function on 0..(len-1)
    bomb_count,   \* Game.bomb_count
    move_count,   \* Game.move_count
    result,       \* what the last call returned
    args,         \* the arguments of the call of Game::start
    built,        \* the squares Game::start built, before clear_safe_squares
    target        \* the last make_move_io step: where its input lies, and
                  \* the move_square_state it read

vars == <<phase, width, height, squares, bomb_count, move_count, result,
          args, built, target>>

(* ---- geometry ---- *)

\* fn surrounding_squares: the position itself, then its neighbours, in the
\* order the code pushes them.
surrounding_squares(position, w, h) ==
    LET x == position.x
        y == position.y
        left == IF x > 0
                THEN <<Position(x - 1, y)>>
                     \o (IF y > 0 THEN <<Position(x - 1, y - 1)>> ELSE <<>>)
                     \o (IF y < h - 1 THEN <<Position(x - 1, y + 1)>> ELSE <<>>)
                ELSE <<>>
        right == IF x < w - 1
                 THEN <<Position(x + 1, y)>>
                      \o (IF y > 0 THEN <<Position(x + 1, y - 1)>> ELSE <<>>)
                      \o (IF y < h - 1 THEN <<Position(x + 1, y + 1)>> ELSE <<>>)
                 ELSE <<>>
        up == IF y > 0 THEN <<Position(x, y - 1)>> ELSE <<>>
        down == IF y < h - 1 THEN <<Position(x, y + 1)>> ELSE <<>>
    IN  <<position>> \o left \o right \o up \o down

\* Board::index_from_position
index_from_position(h, position) == (position.y * h) + position.x

\* Board::position_from_index
position_from_index(h, index) == Position(index % h, index \div h)

\* .iter().map(|position| self.index_from_position(position)).collect()
IndexesOf(h, positions) ==
    [k \in 1..Len(positions) |-> index_from_position(h, positions[k])]

\* Board::surrounding_squares_indexes
surrounding_squares_indexes(w, h, index) ==
    IndexesOf(h, surrounding_squares(position_from_index(h, index), w, h))

\* Board::contains with the bounds of x and y exchanged
contains_m(w, h, position) ==
    (0 <= position.x /\ position.x < h) /\ (0 <= position.y /\ position.y < w)

\* Board::contains
contains(w, h, position) ==
    (0 <= position.x /\ position.x < w) /\ (0 <= position.y /\ position.y < h)

(* ---- board queries ---- *)

\* self.squares[i] panics when i is not an index of the vector
IndexPanics(sq, i) == i \notin DOMAIN sq

\* self.squares[*index] panics for one of the indexes is
AnyIndexPanics(sq, is) == \E k \in 1..Len(is) : IndexPanics(sq, is[k])

\* Board::surrounding_bombs_from_index indexes squares with every
\* surrounding index: it panics if one of them is out of range.
SurroundingPanics(sq, w, h, index) ==
    AnyIndexPanics(sq, surrounding_squares_indexes(w, h, index))

\* Board::surrounding_bombs_from_index that leaves the last surrounding
\* square out of the count
surrounding_bombs_from_index_m(sq, w, h, index) ==
    LET is == surrounding_squares_indexes(w, h, index)
    IN  Cardinality({k \in 1..(Len(is) - 1) : is[k] \in DOMAIN sq /\ sq[is[k]] = Bomb})

\* .filter(|index| self.squares[*index] == Bomb).count() over the indexes is
BombsAmong(sq, is) ==
    Cardinality({k \in 1..Len(is) : is[k] \in DOMAIN sq /\ sq[is[k]] = Bomb})

\* Board::surrounding_bombs_from_index (when it does not panic)
surrounding_bombs_from_index(sq, w, h, index) ==
    BombsAmong(sq, surrounding_squares_indexes(w, h, index))

\* Game::check_won
check_won(sq) == \A i \in DOMAIN sq : ~(sq[i] = Uncovered)

(* ---- clearing ---- *)

\* The board while a clearing runs: ok is FALSE once the code has panicked.
\* With it go the calls of clear_safe_square that have not returned yet:
\* path holds, for each of them, the number of squares that were not
\* Uncovered when it was entered; decreasing is TRUE as long as every call
\* was entered with fewer such squares than the call that made it; deepest
\* is the largest number of calls that were open together.
Running(sq) ==
    [ok |-> TRUE, sq |-> sq, path |-> <<>>, decreasing |-> TRUE, deepest |-> 0]
Panicked(st) == [st EXCEPT !.ok = FALSE]

\* The number of squares of sq that are not Uncovered
NotUncovered(sq) == Cardinality({i \in DOMAIN sq : sq[i] # Uncovered})

\* A call of clear_safe_square is entered, and returns
Entered(st) ==
    [st EXCEPT !.path = Append(@, NotUncovered(st.sq)),
               !.decreasing = @ /\ (st.path = <<>>
                                     \/ NotUncovered(st.sq) < st.path[Len(st.path)]),
               !.deepest = IF Len(st.path) + 1 > @ THEN Len(st.path) + 1 ELSE @]
Returned(st) == [st EXCEPT !.path = SubSeq(@, 1, Len(@) - 1)]

RECURSIVE clear_safe_square(_, _, _, _)
\* The body of the for loop with the test and the assignment turned round:
\* it covers the Uncovered squares it meets.
ClearStep_m(st, w, h, is, k) ==
    IF ~st.ok \/ k > Len(is) THEN st
    ELSE LET clear_index == is[k] IN
         IF IndexPanics(st.sq, clear_index) THEN Panicked(st)
         ELSE IF st.sq[clear_index] = Uncovered
         THEN [st EXCEPT !.sq[clear_index] = Covered]
         ELSE st

\* The body of the for loop that, in the call clear_safe_squares made, also
\* calls clear_safe_square on the square the call is about, which it did
\* not turn.
ClearStep_r(st, w, h, is, k) ==
    IF ~st.ok \/ k > Len(is) THEN st
    ELSE LET clear_index == is[k] IN
         IF IndexPanics(st.sq, clear_index) THEN Panicked(st)
         ELSE IF st.sq[clear_index] # Uncovered
         THEN LET turned == [st EXCEPT !.sq[clear_index] = Uncovered] IN
              IF SurroundingPanics(turned.sq, w, h, clear_index) THEN Panicked(turned)
              ELSE IF surrounding_bombs_from_index(turned.sq, w, h, clear_index) = 0
              THEN clear_safe_square(turned, w, h, clear_index)
              ELSE turned
         ELSE IF k = 1 /\ Len(st.path) = 1
         THEN clear_safe_square(st, w, h, clear_index)
         ELSE st

\* Game::clear_safe_square: the body of the for loop, for the k-th of the
\* surrounding indexes (nothing happens past the last one, or after a panic).
ClearStep(st, w, h, is, k) ==
    IF ~st.ok \/ k > Len(is) THEN st
    ELSE LET clear_index == is[k] IN
         IF IndexPanics(st.sq, clear_index) THEN Panicked(st)
         ELSE IF st.sq[clear_index] # Uncovered
         THEN LET turned == [st EXCEPT !.sq[clear_index] = Uncovered] IN
              IF SurroundingPanics(turned.sq, w, h, clear_index) THEN Panicked(turned)
              ELSE IF surrounding_bombs_from_index(turned.sq, w, h, clear_index) = 0
              THEN clear_safe_square(turned, w, h, clear_index)
              ELSE turned
         ELSE st

\* Game::clear_safe_square: surrounding_squares pushes at most nine
\* positions, so the for loop runs its body at most nine times; after[k] is
\* the board after the k-th iteration.
clear_safe_square(st, w, h, index) ==
    LET is == surrounding_squares_indexes(w, h, index)
        s0 == Entered(st)
        s1 == ClearStep(s0, w, h, is, 1)
        s2 == ClearStep(s1, w, h, is, 2)
        s3 == ClearStep(s2, w, h, is, 3)
        s4 == ClearStep(s3, w, h, is, 4)
        s5 == ClearStep(s4, w, h, is, 5)
        s6 == ClearStep(s5, w, h, is, 6)
        s7 == ClearStep(s6, w, h, is, 7)
        s8 == ClearStep(s7, w, h, is, 8)
        s9 == ClearStep(s8, w, h, is, 9)
        after == <<s1, s2, s3, s4, s5, s6, s7, s8, s9>>
    IN  Returned(after[9])

\* Game::clear_safe_squares: the body of the for loop, for one index
ClearAllStep(st, w, h, index) ==
    IF ~st.ok THEN st
    ELSE IF IndexPanics(st.sq, index) THEN Panicked(st)
    ELSE IF st.sq[index] = Uncovered
    THEN IF SurroundingPanics(st.sq, w, h, index) THEN Panicked(st)
         ELSE IF surrounding_bombs_from_index(st.sq, w, h, index) = 0
         THEN clear_safe_square(st, w, h, index)
         ELSE st
    ELSE st

RECURSIVE ClearAllRange(_, _, _, _, _)
\* Game::clear_safe_squares: the iterations lo..hi of the for loop, in order
ClearAllRange(st, w, h, lo, hi) ==
    IF lo > hi THEN st
    ELSE IF lo = hi THEN ClearAllStep(st, w, h, lo)
    ELSE LET mid == (lo + hi) \div 2
             first == ClearAllRange(st, w, h, lo, mid)
         IN  IF ~first.ok THEN first
             ELSE ClearAllRange(first, w, h, mid + 1, hi)

\* Game::clear_safe_squares
clear_safe_squares(sq, w, h) == ClearAllRange(Running(sq), w, h, 0, w * h - 1)

(* ---- Game::start ---- *)

\* The subsets of 0..(n-1) with k elements.
RECURSIVE KSubsets(_, _)
KSubsets(n, k) ==
    IF k = 0 THEN {{}}
    ELSE IF n < k THEN {}
    ELSE KSubsets(n - 1, k) \cup {S \cup {n - 1} : S \in KSubsets(n - 1, k - 1)}

\* index_range.iter().choose_multiple(&mut rng, bomb_count): any bomb_count
\* distinct elements of 0..n, or all of them when there are fewer.
choose_multiple(n, amount) == KSubsets(n, IF amount < n THEN amount ELSE n)

\* The guard of Game::start on start_move
StartOutOfBounds(w, h, start_move) ==
    ~(0 <= start_move.x /\ start_move.x < h) \/ ~(0 <= start_move.y /\ start_move.y < w)

\* cleared_square_position: the number of squares taken off the sampling
\* range (Corner 4, Edge 6, Middle 9)
ClearedSquareCount(w, h, start_move) ==
    LET on_height_edge == ~(1 <= start_move.x /\ start_move.x < h - 1)
        on_width_edge == ~(1 <= start_move.y /\ start_move.y < w - 1)
    IN  IF on_height_edge /\ on_width_edge THEN 4
        ELSE IF on_height_edge \/ on_width_edge THEN 6
        ELSE 9

\* cleared_indexes: the indexes of surrounding_squares(start_move), through
\* the closure position_to_index (sorting does not change what is read of it)
ClearedIndexes(w, h, start_move) ==
    IndexesOf(h, surrounding_squares(start_move, w, h))

\* adjusted_bomb_position_indexes: one sampled index, adjusted
AdjustedBombIndex(cleared_indexes, bomb_index) ==
    bomb_index + Cardinality({k \in 1..Len(cleared_indexes) :
                                 bomb_index >= cleared_indexes[k]})

\* The squares of new_game with the two tests in the other order: a sampled
\* index is a Bomb even when it is a cleared index.
BuildSquares_m(w, h, cleared_indexes, adjusted) ==
    [index \in 0..(w * h - 1) |->
        IF index \in adjusted THEN Bomb
        ELSE IF \E k \in 1..Len(cleared_indexes) : cleared_indexes[k] = index
        THEN Uncovered
        ELSE Covered]

\* The squares of new_game, before clear_safe_squares
BuildSquares(w, h, cleared_indexes, adjusted) ==
    [index \in 0..(w * h - 1) |->
        IF \E k \in 1..Len(cleared_indexes) : cleared_indexes[k] = index
        THEN Uncovered
        ELSE IF index \in adjusted THEN Bomb
        ELSE Covered]

NoResult == [kind |-> "None"]
OutOfBoundsError(x, y) == [kind |-> "OutOfBoundsError", x |-> x, y |-> y]
RepeatMoveError == [kind |-> "RepeatMoveError"]
InvalidMoveError == [kind |-> "InvalidMoveError"]
PanicResult == [kind |-> "Panic"]
Outcome(k) == [kind |-> k]

NoSquares == [i \in {} |-> Covered]

\* What Game::start comes to once clear_safe_squares has run on new_game:
\* Ok(new_game), or the panic of an index out of range.
Started(sq0, st) ==
    IF st.ok
    THEN [phase |-> "playing", squares |-> st.sq, built |-> sq0,
          result |-> Outcome("Started")]
    ELSE [phase |-> "aborted", squares |-> st.sq, built |-> sq0,
          result |-> PanicResult]

\* Game::start from the sampled indexes unadjusted on: the adjustment, the
\* squares of new_game, clear_safe_squares and the return.
StartWith(w, h, cleared_indexes, unadjusted) ==
    LET adjusted == {AdjustedBombIndex(cleared_indexes, b) : b \in unadjusted}
        sq0 == BuildSquares(w, h, cleared_indexes, adjusted)
    IN  Started(sq0, clear_safe_squares(sq0, w, h))

\* Game::start: the set of what a call can come to. A record with phase
\* "playing" is Ok(new_game); "rejected" is the Err; "aborted" is a call
\* that does not return: h * w - 4 (6, 9) below zero panics in a debug build
\* and wraps to a range no Vec can hold in a release build, and an index
\* out of range panics.
start(w, h, bc, start_move) ==
    IF StartOutOfBounds(w, h, start_move)
    THEN {[phase |-> "rejected", squares |-> NoSquares, built |-> NoSquares,
           result |-> OutOfBoundsError(start_move.x, start_move.y)]}
    ELSE IF h * w - ClearedSquareCount(w, h, start_move) < 0
    THEN {[phase |-> "aborted", squares |-> NoSquares, built |-> NoSquares,
           result |-> PanicResult]}
    ELSE LET n == h * w - ClearedSquareCount(w, h, start_move)
             cleared_indexes == ClearedIndexes(w, h, start_move)
         IN  { StartWith(w, h, cleared_indexes, unadjusted)
               : unadjusted \in choose_multiple(n, bc) }

(* ---- Game::make_move_io ---- *)

\* self.move_count += 1 on a u8: past 255 a debug build panics and a
\* release build wraps.
AddOneU8(m) ==
    IF m + 1 < U8Mod THEN {[ok |-> TRUE, v |-> m + 1]}
    ELSE {[ok |-> FALSE, v |-> m], [ok |-> TRUE, v |-> (m + 1) % U8Mod]}

\* A line get_move_input reads: two comma-separated numbers, or a line
\* that does not split in two.
Parsed(x, y) == [parsed |-> TRUE, x |-> x, y |-> y]
Malformed == [parsed |-> FALSE, x |-> 0, y |-> 0]

\* What one call of make_move_io comes to: the phase the game is in after
\* it, the board and the counter it leaves, what it returns or prints, and
\* read, the move_square_state it read (NotRead when it returned before).
NotRead == "NotRead"
MoveOut(ph, sq, mc, res, read) ==
    [phase |-> ph, squares |-> sq, move_count |-> mc, result |-> res, read |-> read]

\* The Covered arm of the match once clear_safe_squares has run: check_won,
\* then "you won" or the recursive call.
Cleared(st, mc, move_square_state) ==
    IF ~st.ok
    THEN MoveOut("panic", st.sq, mc, PanicResult, move_square_state)
    ELSE IF check_won(st.sq)
    THEN MoveOut("won", st.sq, mc, Outcome("Won"), move_square_state)
    ELSE MoveOut("playing", st.sq, mc, Outcome("Continue"), move_square_state)

\* The match on move_square_state with a Bomb arm that uncovers the square
MatchSquareState_m(sq, w, h, move_square_index, mc) ==
    LET move_square_state == sq[move_square_index] IN
    IF move_square_state = Bomb
    THEN MoveOut("lost", [sq EXCEPT ![move_square_index] = Uncovered], mc,
                 Outcome("Lost"), move_square_state)
    ELSE IF move_square_state = Uncovered
    THEN MoveOut("error", sq, mc, RepeatMoveError, move_square_state)
    ELSE Cleared(clear_safe_squares([sq EXCEPT ![move_square_index] = Uncovered], w, h),
                 mc, move_square_state)

\* The match on move_square_state with an Uncovered arm that goes on to the
\* next move instead of returning RepeatMoveError
MatchSquareState_c(sq, w, h, move_square_index, mc) ==
    LET move_square_state == sq[move_square_index] IN
    IF move_square_state = Bomb
    THEN MoveOut("lost", sq, mc, Outcome("Lost"), move_square_state)
    ELSE IF move_square_state = Uncovered
    THEN MoveOut("playing", sq, mc, Outcome("Continue"), move_square_state)
    ELSE Cleared(clear_safe_squares([sq EXCEPT ![move_square_index] = Uncovered], w, h),
                 mc, move_square_state)

\* The match on move_square_state, after the counter was incremented to mc
MatchSquareState(sq, w, h, move_square_index, mc) ==
    LET move_square_state == sq[move_square_index] IN
    IF move_square_state = Bomb
    THEN MoveOut("lost", sq, mc, Outcome("Lost"), move_square_state)
    ELSE IF move_square_state = Uncovered
    THEN MoveOut("error", sq, mc, RepeatMoveError, move_square_state)
    ELSE Cleared(clear_safe_squares([sq EXCEPT ![move_square_index] = Uncovered], w, h),
                 mc, move_square_state)

\* One call of Game::make_move_io on the line input, up to its return or
\* to its recursive call: the set of what it can come to.
make_move_io(sq, w, h, mc, input) ==
    IF ~input.parsed
    THEN {MoveOut("error", sq, mc, InvalidMoveError, NotRead)}
    ELSE IF ~contains(w, h, Position(input.x, input.y))
    THEN {MoveOut("error", sq, mc, InvalidMoveError, NotRead)}
    ELSE LET move_square_index == index_from_position(h, Position(input.x, input.y)) IN
         IF IndexPanics(sq, move_square_index)
         THEN {MoveOut("panic", sq, mc, PanicResult, NotRead)}
         ELSE { IF inc.ok
                THEN MatchSquareState(sq, w, h, move_square_index, inc.v)
                ELSE MoveOut("panic", sq, mc, PanicResult, sq[move_square_index])
                : inc \in AddOneU8(mc) }

(* ---- the state machine ---- *)

Coords == 0..MaxDim
Dims == 1..MaxDim

\* Where a line of input lies: not a position, a position off the board
\* (not 0 <= x < width and 0 <= y < height), or a position on it.
Where(w, h, input) ==
    IF ~input.parsed THEN "malformed"
    ELSE IF input.x < w /\ input.y < h THEN "on"
    ELSE "off"

NoTarget == [where |-> "none", state |-> NotRead]

NoArgs == [width |-> 0, height |-> 0, bomb_count |-> 0, start_move |-> Position(0, 0)]

Init ==
    /\ phase = "init"
    /\ width = 0
    /\ height = 0
    /\ squares = NoSquares
    /\ bomb_count = 0
    /\ move_count = 0
    /\ result = NoResult
    /\ args = NoArgs
    /\ built = NoSquares
    /\ target = NoTarget

\* main calls Game::start(width, height, bomb_count, start_move)
Start ==
    /\ phase = "init"
    /\ \E w \in Dims, h \in Dims, bc \in 0..MaxBombs, x \in Coords, y \in Coords :
         \E out \in start(w, h, bc, Position(x, y)) :
            /\ args' = [width |-> w, height |-> h, bomb_count |-> bc,
                        start_move |-> Position(x, y)]
            /\ phase' = out.phase
            /\ result' = out.result
            /\ built' = out.built
            /\ squares' = out.squares
            /\ IF out.phase = "playing"
               THEN /\ width' = w
                    /\ height' = h
                    /\ bomb_count' = bc
                    /\ move_count' = 1
               ELSE UNCHANGED <<width, height, bomb_count, move_count>>
            /\ UNCHANGED target

\* One call of make_move_io that reads the line input
MakeMove(input) ==
    \E out \in make_move_io(squares, width, height, move_count, input) :
       /\ target' = [where |-> Where(width, height, input), state |-> out.read]
       /\ phase' = out.phase
       /\ squares' = out.squares
       /\ move_count' = out.move_count
       /\ result' = out.result
       /\ UNCHANGED <<width, height, bomb_count, args, built>>

\* main, or the Covered arm of make_move_io, calls make_move_io
MakeMoveIo ==
    /\ phase = "playing"
    /\ \E input \in {Parsed(x, y) : x \in Coords, y \in Coords} \cup {Malformed} :
         MakeMove(input)

Next == Start \/ MakeMoveIo

Spec == Init /\ [][Next]_vars

(* ---- what the claims speak of ---- *)

\* A Game exists: Game::start returned one, and no call has panicked since.
GameLive == phase \in {"playing", "lost", "won", "error"}

\* The indexes of the squares of sq in state s
CellsIn(sq, s) == {i \in DOMAIN sq : sq[i] = s}

\* A position within the board: 0 <= x < W and 0 <= y < H
InBoard(w, h, p) == 0 <= p.x /\ p.x < w /\ 0 <= p.y /\ p.y < h

\* The position p and its Moore neighbours within the board
Neighbors(p, w, h) ==
    {q \in {Position(x, y) : x \in (p.x - 1)..(p.x + 1), y \in (p.y - 1)..(p.y + 1)} :
        InBoard(w, h, q)}

\* The state of the square at position p ("NoSquare" if the board holds none)
StateAt(sq, h, p) ==
    IF index_from_position(h, p) \in DOMAIN sq THEN sq[index_from_position(h, p)]
    ELSE "NoSquare"

\* Game::start was called with a start_move within the board
StartInBoard == InBoard(args.width, args.height, args.start_move)

\* bomb_count fits the squares outside the neighbourhood of start_move
BombsFit ==
    args.bomb_count <= args.width * args.height
                        - Cardinality(Neighbors(args.start_move, args.width, args.height))

\* Every square that is not a Bomb is Uncovered
AllSafeRevealed(sq) == \A i \in DOMAIN sq : sq[i] # Bomb => sq[i] = Uncovered

(* ---- C1 ---- *)

\* C1 (as claimed): in every Game that start built from a start_move within
\* the board and a bomb_count that fits, the number of Bomb squares equals
\* bomb_count, after start and after any sequence of moves.
C1_MineCountIsBombCount ==
    (GameLive /\ StartInBoard /\ BombsFit)
        => Cardinality(CellsIn(squares, Bomb)) = bomb_count

(* ---- C2 ---- *)

\* C2: right after a successful start with a start_move within the board,
\* every position of the neighbourhood of start_move holds an Uncovered
\* square (so none of them holds a Bomb).
C2_SafeRegionRevealed ==
    (phase = "playing" /\ result.kind = "Started" /\ StartInBoard)
        => \A p \in Neighbors(args.start_move, width, height) :
              StateAt(squares, height, p) = Uncovered

\* C2 witness: a started game whose start_move has all nine neighbours and
\* which holds a Bomb next to the cleared region.
C2_Witness ==
    /\ phase = "playing" /\ result.kind = "Started" /\ StartInBoard
    /\ Cardinality(Neighbors(args.start_move, width, height)) = 9
    /\ CellsIn(squares, Bomb) # {}

(* ---- C3 ---- *)

\* C3 (as claimed): check_won is true exactly when no square is Covered.
C3_CheckWonIffNoCovered ==
    GameLive => (check_won(squares) <=> CellsIn(squares, Covered) = {})

(* ---- C4 ---- *)

\* C4 (as claimed): a move on a Covered square ends in Won exactly when
\* every square that is not a Bomb is Uncovered after it, and goes on
\* (Continue, still playing) otherwise.
C4_WonIffAllSafeRevealed ==
    (phase \in {"playing", "won"} /\ target.state = Covered)
        => /\ (result.kind = "Won" /\ phase = "won") <=> AllSafeRevealed(squares)
           /\ (result.kind = "Continue" /\ phase = "playing") <=> ~AllSafeRevealed(squares)

(* ---- C5 ---- *)

\* C5 (as claimed): a move on a square of the board that is already
\* Uncovered returns RepeatMoveError and leaves move_count and every square
\* as they were.
C5_RepeatChangesNothing ==
    [][(phase = "playing" /\ target'.where = "on" /\ target'.state = Uncovered)
          => /\ result'.kind = "RepeatMoveError"
             /\ move_count' = move_count
             /\ squares' = squares]_vars

(* ---- C6 ---- *)

\* C6: a move on a position off the board returns InvalidMoveError without
\* reading a square, and leaves move_count and every square as they were.
C6_OffBoardIsInvalid ==
    [][(phase = "playing" /\ target'.where = "off")
          => /\ result'.kind = "InvalidMoveError"
             /\ phase' = "error"
             /\ target'.state = NotRead
             /\ move_count' = move_count
             /\ squares' = squares]_vars

\* C6 witness: a move off a board that still has Covered squares was
\* answered with InvalidMoveError.
C6_Witness ==
    /\ target.where = "off"
    /\ result.kind = "InvalidMoveError"
    /\ CellsIn(squares, Covered) # {}

(* ---- C7 ---- *)

C8_OutOfBoundsIffOffBoard ==
    phase # "init"
        => ((phase = "rejected"
               /\ result = OutOfBoundsError(args.start_move.x, args.start_move.y))
            <=> ~StartInBoard)

(* ---- C9 ---- *)

\* The board to is the board from with more squares Uncovered: no square
\* leaves Uncovered and no square becomes Covered.
Grown(from, to) ==
    /\ DOMAIN from = DOMAIN to
    /\ \A i \in DOMAIN from :
          /\ from[i] = Uncovered => to[i] = Uncovered
          /\ to[i] = Covered => from[i] = Covered

\* C9: the clearing run by start only grows the Uncovered squares of the
\* board it built, and so does every move.
C9_Monotone ==
    [][/\ Grown(built', squares')
       /\ phase = "playing" => Grown(squares, squares')]_vars

\* The board as start left it: the clearing of the board it built
StartSquares == clear_safe_squares(built, width, height).sq

\* C9 witness: a move has uncovered a square with no Bomb around it that
\* start had left Covered, so that the clearing went on from it.
C9_Witness ==
    /\ phase = "playing"
    /\ width = height
    /\ target.state = Covered
    /\ \E i \in DOMAIN squares :
          /\ StartSquares[i] = Covered
          /\ squares[i] = Uncovered
          /\ surrounding_bombs_from_index(squares, width, height, i) = 0

(* ---- C10 ---- *)

\* C10: whatever start's clearing and the moves have uncovered, the Bomb
\* squares are exactly the Bomb squares of the board start built.
C10_MinesStay == CellsIn(squares, Bomb) = CellsIn(built, Bomb)

\* C10 witness: with two Bombs on the board, start's clearing and then the
\* clearing of a move have both uncovered squares.
C10_Witness ==
    /\ phase = "playing"
    /\ width = height
    /\ target.state = Covered
    /\ Cardinality(CellsIn(squares, Bomb)) = 2
    /\ StartSquares # built
    /\ Cardinality(CellsIn(squares, Uncovered))
          > Cardinality(CellsIn(StartSquares, Uncovered)) + (move_count - 1)

(* ---- C11 ---- *)

\* The Moore neighbours of p within the board, p itself left out
MooreNeighbors(p, w, h) == Neighbors(p, w, h) \ {p}

\* The number of Moore neighbours of p within the board that hold a Bomb
MineCountAround(sq, w, h, p) ==
    Cardinality({q \in MooreNeighbors(p, w, h) : StateAt(sq, h, q) = Bomb})

\* The positions of the board
Positions(w, h) == {Position(x, y) : x \in 0..(w - 1), y \in 0..(h - 1)}

\* C11 (as claimed): whenever a Game waits for a move (start has returned
\* it, or a move on a Covered square has returned), every Uncovered square
\* with no Bomb around it has all its Moore neighbours within the board
\* Uncovered; and a Game started with bomb_count = 0 has every square
\* Uncovered.
C11_FloodFillComplete ==
    (phase = "playing" /\ result.kind \in {"Started", "Continue"})
        => /\ \A p \in Positions(width, height) :
                (StateAt(squares, height, p) = Uncovered
                   /\ MineCountAround(squares, width, height, p) = 0)
                => \A q \in MooreNeighbors(p, width, height) :
                      StateAt(squares, height, q) = Uncovered
           /\ (result.kind = "Started" /\ bomb_count = 0)
                => \A i \in DOMAIN squares : squares[i] = Uncovered

\* C11 on the boards whose width equals their height
C11_OnSquareBoards == width = height => C11_FloodFillComplete

(* ---- C12 ---- *)

\* Board::index_from_position and Board::position_from_index are inverse to
\* each other between the indexes 0..(w*h - 1) and the positions of the board
Bijection(w, h) ==
    /\ \A i \in 0..(w * h - 1) :
          /\ index_from_position(h, position_from_index(h, i)) = i
          /\ InBoard(w, h, position_from_index(h, i))
    /\ \A p \in Positions(w, h) :
          /\ position_from_index(h, index_from_position(h, p)) = p
          /\ index_from_position(h, p) \in 0..(w * h - 1)

\* C12 (as claimed): on the board of every Game, whatever its width and
\* height, the mapping between indexes and positions is a bijection.
C12_MappingIsBijection == GameLive => Bijection(width, height)

\* C12 on the boards whose width equals their height
C12_OnSquareBoards == (GameLive /\ width = height) => Bijection(width, height)

(* ---- C13 ---- *)

\* The indexes of the safe region of the call of start: the cleared indexes
SafeIndexes ==
    {ClearedIndexes(args.width, args.height, args.start_move)[k] :
        k \in DOMAIN ClearedIndexes(args.width, args.height, args.start_move)}

\* The range start samples from: 0..(W*H - K - 1)
SampleRange ==
    0..(args.height * args.width
          - ClearedSquareCount(args.width, args.height, args.start_move) - 1)

\* The adjusted index start computes for the sampled index b
Lifted(b) ==
    AdjustedBombIndex(ClearedIndexes(args.width, args.height, args.start_move), b)

\* C13 (as claimed): in a Game that start built from a start_move within
\* the board, the adjustment maps the sampling range one-to-one onto the
\* indexes of the board outside the safe region.
C13_LiftIsBijection ==
    (GameLive /\ StartInBoard)
        => /\ \A b \in SampleRange :
                /\ Lifted(b) \in 0..(args.width * args.height - 1)
                /\ Lifted(b) \notin SafeIndexes
           /\ \A b1, b2 \in SampleRange : Lifted(b1) = Lifted(b2) => b1 = b2
           /\ \A i \in (0..(args.width * args.height - 1)) \ SafeIndexes :
                \E b \in SampleRange : Lifted(b) = i

(* ---- C14 ---- *)

\* C14 (as claimed): whenever start is called with a start_move within the
\* board, the number of squares it takes off the sampling range is the
\* number of positions of the neighbourhood of start_move, the range is not
\* negative and the call does not abort; and start(1, 1, 0, (0,0)) returns
\* a Game with its one square Uncovered and move_count = 1.
C14_ClearedCountIsNeighbors ==
    (phase # "init" /\ StartInBoard)
        => /\ ClearedSquareCount(args.width, args.height, args.start_move)
                = Cardinality(Neighbors(args.start_move, args.width, args.height))
           /\ args.height * args.width
                - ClearedSquareCount(args.width, args.height, args.start_move) >= 0
           /\ phase # "aborted"
           /\ (args.width = 1 /\ args.height = 1 /\ args.bomb_count = 0)
                => /\ phase = "playing"
                   /\ \A i \in DOMAIN squares : squares[i] = Uncovered
                   /\ DOMAIN squares = {0}
                   /\ move_count = 1

(* ---- C15 ---- *)

\* C15 (as claimed): a call of start with a start_move within the board
\* and a bomb_count above the number of squares outside the neighbourhood
\* of start_move returns an Err, never a Game; and no Game start returns
\* holds fewer Bomb squares than its bomb_count.
C15_TooManyBombsIsError ==
    /\ (phase # "init" /\ StartInBoard /\ ~BombsFit)
          => (phase = "rejected" /\ result.kind \notin {"Started", "Panic"})
    /\ (phase = "playing" /\ result.kind = "Started" /\ StartInBoard /\ ~BombsFit)
          => Cardinality(CellsIn(squares, Bomb)) >= bomb_count

(* ---- C16 ---- *)

\* A long game: a board of LongDim x LongDim squares, started in its middle,
\* on which choose_multiple has sampled the indexes that the adjustment
\* puts on every third row, so that every square has a Bomb near it and a
\* move uncovers one square.
LongDim == 21
LongStartMove == Position(10, 10)
LongCleared == ClearedIndexes(LongDim, LongDim, LongStartMove)
LongRange ==
    0..(LongDim * LongDim - ClearedSquareCount(LongDim, LongDim, LongStartMove) - 1)
LongSample ==
    {b \in LongRange : (AdjustedBombIndex(LongCleared, b) \div LongDim) % 3 = 1}

\* main calls Game::start(LongDim, LongDim, bomb_count, LongStartMove) and
\* choose_multiple returns LongSample
StartLong ==
    /\ phase = "init"
    /\ LET out == StartWith(LongDim, LongDim, LongCleared, LongSample) IN
       /\ args' = [width |-> LongDim, height |-> LongDim,
                   bomb_count |-> Cardinality(LongSample),
                   start_move |-> LongStartMove]
       /\ phase' = out.phase
       /\ result' = out.result
       /\ built' = out.built
       /\ squares' = out.squares
       /\ width' = LongDim
       /\ height' = LongDim
       /\ bomb_count' = Cardinality(LongSample)
       /\ move_count' = 1
       /\ UNCHANGED target

\* The player enters the position of the first Covered square of the board
MoveLong ==
    /\ phase = "playing"
    /\ CellsIn(squares, Covered) # {}
    /\ LET first == CHOOSE i \in CellsIn(squares, Covered) :
                        \A j \in CellsIn(squares, Covered) : i <= j
           p == position_from_index(height, first)
       IN  MakeMove(Parsed(p.x, p.y))

NextLong == StartLong \/ MoveLong

LongGame == Init /\ [][NextLong]_vars

\* C16 (as claimed): move_count is 1 when start returns; every move that
\* ends in Continue, Won or Lost adds exactly one to it; and no move makes
\* it smaller, and the addition never leaves the eight bits of the counter.
C16_MoveCountGrows ==
    [][/\ (phase = "init" /\ phase' = "playing") => move_count' = 1
       /\ (phase = "playing" /\ result'.kind \in {"Continue", "Won", "Lost"})
             => move_count' = move_count + 1
       /\ phase = "playing" => move_count' >= move_count
       /\ (phase = "playing" /\ target'.state # NotRead) => move_count + 1 < U8Mod]_vars

(* ---- C17 ---- *)

\* The clearing start ran on the board it built
StartClearing == clear_safe_squares(built, args.width, args.height)

\* The clearing a move on the Covered square at index i would run
MoveClearing(i) ==
    clear_safe_squares([squares EXCEPT ![i] = Uncovered], width, height)

\* A clearing that began on the board from has ended as st: every call of
\* clear_safe_square has returned, each was entered with fewer squares not
\* Uncovered than the call that made it, and below the call clear_safe_squares
\* made there were never more calls open together than from has squares
\* that are not Uncovered.
Terminated(from, st) ==
    /\ st.path = <<>>
    /\ st.decreasing
    /\ st.deepest <= NotUncovered(from) + 1

\* C17: the clearing of every call of start that got as far as building a
\* board, and the clearing of every move that may follow on a Covered
\* square, ends with the number of squares that are not Uncovered strictly
\* decreasing along the recursion of clear_safe_square.
C17_ClearingTerminates ==
    /\ DOMAIN built # {} => Terminated(built, StartClearing)
    /\ phase = "playing"
          => \A i \in CellsIn(squares, Covered) :
                Terminated([squares EXCEPT ![i] = Uncovered], MoveClearing(i))

\* C17 witness: a game in which the clearing of start called
\* clear_safe_square from within clear_safe_square, and a move may follow
\* whose clearing does so again.
C17_Witness ==
    /\ phase = "playing"
    /\ StartClearing.deepest >= 2
    /\ \E i \in CellsIn(squares, Covered) : MoveClearing(i).deepest >= 2

(* ---- C18 ---- *)

\* surrounding_bombs_from_index, called on the Uncovered square at position
\* p, returns the number of Moore neighbours of p within the board that hold
\* a Bomb, a number from 0 to 8.
CountsMooreBombs(p) ==
    /\ ~SurroundingPanics(squares, width, height, index_from_position(height, p))
    /\ surrounding_bombs_from_index(squares, width, height,
                                    index_from_position(height, p))
          = MineCountAround(squares, width, height, p)
    /\ surrounding_bombs_from_index(squares, width, height,
                                    index_from_position(height, p)) \in 0..8

\* C18 (as claimed): in every state of every Game, surrounding_bombs_from_index
\* counts, for every Uncovered square, the Bombs among its Moore neighbours
\* within the board.
C18_CountIsMooreCount ==
    GameLive
        => \A p \in Positions(width, height) :
              StateAt(squares, height, p) = Uncovered => CountsMooreBombs(p)

\* C18 on the boards whose width equals their height
C18_OnSquareBoards == width = height => C18_CountIsMooreCount

(* ---- C19 ---- *)

\* Every index surrounding_squares_indexes returns for an index of a board
\* of w x h squares is an index of that board
SurroundingInRange(w, h) ==
    \A i \in 0..(w * h - 1) :
       \A k \in DOMAIN surrounding_squares_indexes(w, h, i) :
          surrounding_squares_indexes(w, h, i)[k] \in 0..(w * h - 1)

\* C19 (as claimed): on the board of every call of start, whatever its
\* width and height, surrounding_squares_indexes stays within the board,
\* and neither the clearing of start nor a move ends in an access of
\* squares out of range.
C19_IndexesInRange ==
    phase # "init"
        => /\ SurroundingInRange(args.width, args.height)
           /\ ~(phase = "aborted" /\ DOMAIN built # {})
           /\ phase # "panic"

\* C19 on the boards whose width equals their height
C19_OnSquareBoards == args.width = args.height => C19_IndexesInRange

(* ---- C20 ---- *)

\* The play session with a player who goes on entering lines: make_move_io
\* waits in read_line for the next line and calls itself after every move
\* that goes on, so a call that can be made is made.
FairSpec == Spec /\ WF_vars(MakeMoveIo)

\* C20: every move that goes on (Continue) leaves fewer Covered squares
\* than it found; the moves that went on are never more than the squares
\* start left Covered; and a session that waits for a move always comes to
\* an end.
C20_SessionEnds ==
    /\ [][(phase = "playing" /\ result'.kind = "Continue")
             => Cardinality(CellsIn(squares', Covered))
                  < Cardinality(CellsIn(squares, Covered))]_vars
    /\ [](phase = "playing"
             => move_count - 1 <= Cardinality(CellsIn(StartClearing.sq, Covered)))
    /\ (phase = "playing") ~> (phase # "playing")

\* C20 witness: a session that went on for as many moves as start had left
\* squares Covered, three or more, and then ended.
C20_Witness ==
    /\ phase \in {"lost", "error"}
    /\ target.where = "on"
    /\ CellsIn(squares, Covered) = {}
    /\ Cardinality(CellsIn(StartClearing.sq, Covered)) >= 3
    /\ move_count - 2 = Cardinality(CellsIn(StartClearing.sq, Covered))

=============================================================================
